---- MODULE Spec2Model ----
(***************************************************************************)
(* Model of app.py, the vaccination dashboard script.  One run of the      *)
(* script is a straight line of stages (load, clean column names, extract  *)
(* date ranges, the four sidebar widgets, filter, summary, table, chart);  *)
(* every user interaction reruns the script from the top with the cached   *)
(* load result.  Strings are sequences of one-character strings so that    *)
(* str.replace, str.startswith, re.search, f-string concatenation and      *)
(* sorted() are modelled by what they do.                                  *)
(***************************************************************************)
EXTENDS Integers, Sequences, FiniteSets, TLC

\* ------------------------------------------------------------------ bounds
MaxRows == 2

\* ------------------------------------------------------- string literals
ALL == <<"A", "l", "l">>
REG == <<"R", "e", "g">>
VAC == <<"V", "a", "c">>
COL_UC == <<"U", "C">>
COL_FACILITY == <<"E", "p", "i", "_", "M", "i", "s", "_", "F", "a", "c", "i", "l", "i", "t", "y", "_", "N", "a", "m", "e">>
COL_VACCINATOR == <<"V", "a", "c", "c", "i", "n", "a", "t", "o", "r", "N", "a", "m", "e">>
FILE_NAME == "progress_data.xlsx"
MSG_NO_DATES == "No date ranges selected. Showing all."
MSG_NO_DATA == "No data for selected filters."
METRIC_REG == "Registrations"
METRIC_VAC == "Vaccinations"

\* ------------------------------------------- the spreadsheet on disk
\* Column headers as they may appear in progress_data.xlsx, before cleaning.
RAW_FACILITY == <<"E", "p", "i", " ", "M", "i", "s", " ", "(", "F", "a", "c", "i", "l", "i", "t", "y", " ", "N", "a", "m", "e", ")">>
RAW_REG_8_14 == <<"R", "e", "g", "(", "8", " ", "J", "a", "n", "-", "1", "4", " ", "J", "a", "n", ")">>
RAW_VAC_8_14 == <<"V", "a", "c", "(", "8", " ", "J", "a", "n", "-", "1", "4", " ", "J", "a", "n", ")">>
RAW_REG_1_7 == <<"R", "e", "g", "(", "1", " ", "J", "a", "n", "-", "7", " ", "J", "a", "n", ")">>
RAW_VAC_1_7 == <<"V", "a", "c", "(", "1", " ", "J", "a", "n", "-", "7", " ", "J", "a", "n", ")">>
RAW_REG_TOTAL == <<"R", "e", "g", " ", "T", "o", "t", "a", "l">>

RawCategorical == <<COL_UC, RAW_FACILITY, COL_VACCINATOR>>
RawMetricPool == <<RAW_REG_8_14, RAW_VAC_8_14, RAW_REG_1_7, RAW_VAC_1_7, RAW_REG_TOTAL>>

U1 == <<"U", "1">>
U2 == <<"U", "2">>
F1 == <<"F", "1">>
F2 == <<"F", "2">>
V1 == <<"V", "1">>
V2 == <<"V", "2">>

\* Spreadsheet rows: the three categorical cells and one count per pool column.
RowPool ==
    { [cat |-> <<U2, F2, V1>>, counts |-> <<3, 2, 10, 8, 13>>],
      [cat |-> <<U1, F1, V1>>, counts |-> <<7, 1, 5, 4, 12>>],
      [cat |-> <<U1, F2, V2>>, counts |-> <<0, 6, 2, 9, 2>>],
      [cat |-> <<U2, F1, V2>>, counts |-> <<4, 4, 1, 0, 5>>] }

NoTable == [columns |-> <<>>, rows |-> <<>>]

RECURSIVE SetToSeq(_)
\* The members of a set of naturals in increasing order.
SetToSeq(S) ==
    IF S = {} THEN <<>>
    ELSE LET m == CHOOSE x \in S : \A y \in S : x <= y
         IN  <<m>> \o SetToSeq(S \ {m})

\* The table pandas reads from a sheet with the given metric columns and rows:
\* an ordered column index and rows carrying their positional index label.
Sheet(metricCols, picked) ==
    LET ms == SetToSeq(metricCols)
    IN  [columns |-> RawCategorical \o [i \in 1..Len(ms) |-> RawMetricPool[ms[i]]],
         rows    |-> [r \in 1..Len(picked) |->
                        [index |-> r - 1,
                         cells |-> picked[r].cat \o
                                   [i \in 1..Len(ms) |-> picked[r].counts[ms[i]]]]]]

Sheets ==
    { Sheet(mc, p) : mc \in SUBSET (1..Len(RawMetricPool)),
                     p \in UNION { [1..n -> RowPool] : n \in 0..MaxRows } }

Files ==
    { [status |-> "ok", table |-> t] : t \in Sheets }
    \cup { [status |-> "missing", table |-> NoTable],
           [status |-> "corrupt", table |-> NoTable] }

\* ------------------------------------------------------ string helpers
Ord(c) ==
    CASE c = " " -> 32
      [] c = "(" -> 40
      [] c = ")" -> 41
      [] c = "-" -> 45
      [] c = "0" -> 48
      [] c = "1" -> 49
      [] c = "2" -> 50
      [] c = "3" -> 51
      [] c = "4" -> 52
      [] c = "5" -> 53
      [] c = "6" -> 54
      [] c = "7" -> 55
      [] c = "8" -> 56
      [] c = "9" -> 57
      [] c = "A" -> 65
      [] c = "C" -> 67
      [] c = "E" -> 69
      [] c = "F" -> 70
      [] c = "J" -> 74
      [] c = "M" -> 77
      [] c = "N" -> 78
      [] c = "R" -> 82
      [] c = "T" -> 84
      [] c = "U" -> 85
      [] c = "V" -> 86
      [] c = "_" -> 95
      [] c = "a" -> 97
      [] c = "c" -> 99
      [] c = "e" -> 101
      [] c = "g" -> 103
      [] c = "i" -> 105
      [] c = "l" -> 108
      [] c = "m" -> 109
      [] c = "n" -> 110
      [] c = "o" -> 111
      [] c = "p" -> 112
      [] c = "r" -> 114
      [] c = "s" -> 115
      [] c = "t" -> 116
      [] c = "y" -> 121

\* \d and [A-Za-z] of the date pattern.
IsDigit(c) == Ord(c) >= 48 /\ Ord(c) <= 57
IsAlpha(c) == (Ord(c) >= 65 /\ Ord(c) <= 90) \/ (Ord(c) >= 97 /\ Ord(c) <= 122)

Range(s) == { s[i] : i \in DOMAIN s }

\* str.replace(old, "") for a one-character old.
Remove(s, old) == SelectSeq(s, LAMBDA c : c # old)

\* str.replace(old, new) for one-character old and new.
Replace(s, old, new) == [i \in DOMAIN s |-> IF s[i] = old THEN new ELSE s[i]]

\* str.startswith(prefix)
StartsWith(s, prefix) ==
    Len(s) >= Len(prefix) /\ SubSeq(s, 1, Len(prefix)) = prefix

RECURSIVE LexLess(_, _)
\* Python's str < str: code points compared position by position.
LexLess(a, b) ==
    IF b = <<>> THEN FALSE
    ELSE IF a = <<>> THEN TRUE
    ELSE IF Ord(Head(a)) # Ord(Head(b)) THEN Ord(Head(a)) < Ord(Head(b))
    ELSE LexLess(Tail(a), Tail(b))

RECURSIVE Sorted(_)
\* sorted() over a collection of distinct strings.
Sorted(S) ==
    IF S = {} THEN <<>>
    ELSE LET m == CHOOSE x \in S : \A y \in S \ {x} : LexLess(x, y)
         IN  <<m>> \o Sorted(S \ {m})

\* Length of a match of \d{1,2}_[A-Za-z]{3} at position i of s, 0 if none.
HalfAt(s, i) ==
    LET ok(k, P(_)) == k <= Len(s) /\ P(s[k])
        us(c) == c = "_"
    IN  IF ok(i, IsDigit) /\ ok(i + 1, IsDigit) /\ ok(i + 2, us)
           /\ ok(i + 3, IsAlpha) /\ ok(i + 4, IsAlpha) /\ ok(i + 5, IsAlpha)
        THEN 6
        ELSE IF ok(i, IsDigit) /\ ok(i + 1, us)
                /\ ok(i + 2, IsAlpha) /\ ok(i + 3, IsAlpha) /\ ok(i + 4, IsAlpha)
        THEN 5
        ELSE 0

\* Length of a match of the whole date pattern at position i of s, 0 if none.
MatchAt(s, i) ==
    LET h1 == HalfAt(s, i)
        h2 == HalfAt(s, i + h1 + 1)
    IN  IF h1 > 0 /\ i + h1 <= Len(s) /\ s[i + h1] = "-" /\ h2 > 0
        THEN h1 + 1 + h2
        ELSE 0

\* re.search(pattern, col): the leftmost match, <<>> when there is none.
ReSearch(col) ==
    LET starts == { i \in 1..Len(col) : MatchAt(col, i) > 0 }
    IN  IF starts = {} THEN <<>>
        ELSE LET i == CHOOSE x \in starts : \A y \in starts : x <= y
             IN  SubSeq(col, i, i + MatchAt(col, i) - 1)

\* ------------------------------------------------------ table helpers
HasColumn(t, name) == \E i \in DOMAIN t.columns : t.columns[i] = name

\* Position of the column labelled name (the lookup behind t[name]).
ColumnIndex(t, name) == CHOOSE i \in DOMAIN t.columns : t.columns[i] = name

\* t[name]: the column's cells, row by row.
Column(t, name) == [r \in DOMAIN t.rows |-> t.rows[r].cells[ColumnIndex(t, name)]]

\* t[t[name] == value]: boolean-mask selection, a new table.
WhereEq(t, name, value) ==
    [columns |-> t.columns,
     rows    |-> SelectSeq(t.rows, LAMBDA r : r.cells[ColumnIndex(t, name)] = value)]

\* t[(t[n1] == v1) & (t[n2] == v2)]
WhereEq2(t, n1, v1, n2, v2) ==
    [columns |-> t.columns,
     rows    |-> SelectSeq(t.rows, LAMBDA r : r.cells[ColumnIndex(t, n1)] = v1
                                              /\ r.cells[ColumnIndex(t, n2)] = v2)]

\* sorted(t[name].unique())
SortedUnique(t, name) == Sorted(Range(Column(t, name)))

RECURSIVE SumSeq(_)
\* Series.sum()
SumSeq(s) == IF s = <<>> THEN 0 ELSE Head(s) + SumSeq(Tail(s))

\* ------------------------------------------------------------ load_data
ErrNotFound ==
    [level |-> "error",
     text  |-> <<"File '", FILE_NAME, "' not found. Ensure it is in the script's directory.">>]
ErrLoading ==
    [level |-> "error",
     text  |-> <<"Error loading '", FILE_NAME, "': ", "read failure">>]

\* Mutation: the error is shown but st.stop() is not called.
load_data_noStop(f) ==
    [stopped |-> FALSE,
     value   |-> f.table,
     shown   |-> IF f.status = "ok" THEN <<>>
                 ELSE IF f.status = "missing" THEN <<ErrNotFound>> ELSE <<ErrLoading>>]

\* The body of load_data on a cache miss: the table, or an error and st.stop().
load_data(f) ==
    IF f.status = "ok" THEN [stopped |-> FALSE, value |-> f.table, shown |-> <<>>]
    ELSE IF f.status = "missing"
    THEN [stopped |-> TRUE, value |-> NoTable, shown |-> <<ErrNotFound>>]
    ELSE [stopped |-> TRUE, value |-> NoTable, shown |-> <<ErrLoading>>]

\* ------------------------------------------------- column-name cleaning
CleanName(col) == Replace(Remove(Remove(col, "("), ")"), " ", "_")

CleanColumns(t) ==
    [columns |-> [i \in DOMAIN t.columns |-> CleanName(t.columns[i])],
     rows    |-> t.rows]

\* ------------------------------------------------- date-range discovery
DateColumns(columns) ==
    SelectSeq(columns, LAMBDA col : StartsWith(col, REG) \/ StartsWith(col, VAC))

DateRanges(columns) ==
    Sorted({ ReSearch(col) : col \in { c \in Range(DateColumns(columns)) : ReSearch(c) # <<>> } })

DateToColumns(drs) == [dr \in Range(drs) |-> <<REG \o dr, VAC \o dr>>]

\* ------------------------------------------------------ sidebar options
Ucs(t) == SortedUnique(t, COL_UC)

Facilities(t, uc) ==
    IF uc = ALL THEN SortedUnique(t, COL_FACILITY)
    ELSE SortedUnique(WhereEq(t, COL_UC, uc), COL_FACILITY)

Vaccinators(t, uc, facility) ==
    IF uc = ALL /\ facility = ALL THEN SortedUnique(t, COL_VACCINATOR)
    ELSE SortedUnique(WhereEq2(t, COL_UC, uc, COL_FACILITY, facility), COL_VACCINATOR)

\* What st.selectbox can return: one of its options.
SelectboxValues(options) == {ALL} \cup Range(options)

\* What st.multiselect can return: options in the order the user picked them.
MultiselectValues(options) ==
    { s \in UNION { [1..n -> Range(options)] : n \in 0..Len(options) } :
        \A i, j \in DOMAIN s : i # j => s[i] # s[j] }

\* Mutation: an empty selection is passed on as it is.
EffectiveDateRanges_noFallback(picked, drs) == picked

\* The empty-selection fallback.
EffectiveDateRanges(picked, drs) == IF picked = <<>> THEN drs ELSE picked

\* ------------------------------------------------------------ filtering
FilterUc(t, uc) == IF uc # ALL THEN WhereEq(t, COL_UC, uc) ELSE t
\* Mutation: the facility selection is never applied.
FilterFacility_skipped(t, facility) == t

FilterFacility(t, facility) ==
    IF facility # ALL THEN WhereEq(t, COL_FACILITY, facility) ELSE t
FilterVaccinator(t, vaccinator) ==
    IF vaccinator # ALL THEN WhereEq(t, COL_VACCINATOR, vaccinator) ELSE t

\* filtered_df: a copy of df narrowed by each active selection in turn.
FilteredDf(t, uc, facility, vaccinator) ==
    FilterVaccinator(FilterFacility(FilterUc(t, uc), facility), vaccinator)

IsEmpty(t) == t.rows = <<>>

\* -------------------------------------------------------------- summary
Label(dr) == Replace(dr, "_", " ")

RegTotal(t, cols) == SumSeq(Column(t, cols[1]))
VacTotal(t, cols) == SumSeq(Column(t, cols[2]))

RECURSIVE SummaryLoop(_, _, _, _)
\* The summary loop from bucket k on: the totals rendered so far and the
\* KeyError that ends the loop when a bucket's column is not in the table.
SummaryLoop(t, sel, d2c, k) ==
    IF k > Len(sel) THEN [rendered |-> <<>>, raised |-> <<>>]
    ELSE LET cols == d2c[sel[k]]
         IN  IF ~HasColumn(t, cols[1])
             THEN [rendered |-> <<>>, raised |-> <<"KeyError", cols[1]>>]
             ELSE IF ~HasColumn(t, cols[2])
             THEN [rendered |-> <<>>, raised |-> <<"KeyError", cols[2]>>]
             ELSE LET rest == SummaryLoop(t, sel, d2c, k + 1)
                  IN  [rendered |-> <<[label |-> Label(sel[k]),
                                       reg   |-> RegTotal(t, cols),
                                       vac   |-> VacTotal(t, cols)]>> \o rest.rendered,
                       raised   |-> rest.raised]

\* ------------------------------------------------- table and download
RECURSIVE BucketColumns(_, _)
BucketColumns(sel, d2c) ==
    IF sel = <<>> THEN <<>>
    ELSE <<d2c[Head(sel)][1], d2c[Head(sel)][2]>> \o BucketColumns(Tail(sel), d2c)

TableColumns(sel, d2c) ==
    <<COL_UC, COL_FACILITY, COL_VACCINATOR>> \o BucketColumns(sel, d2c)

RegDisplay(dr) == REG \o <<" ", "(">> \o Label(dr) \o <<")">>
VacDisplay(dr) == VAC \o <<" ", "(">> \o Label(dr) \o <<")">>

\* rename_dict applied to one column label.
Rename(col, sel, d2c) ==
    IF \E k \in DOMAIN sel : d2c[sel[k]][2] = col
    THEN VacDisplay(sel[CHOOSE k \in DOMAIN sel : d2c[sel[k]][2] = col])
    ELSE IF \E k \in DOMAIN sel : d2c[sel[k]][1] = col
    THEN RegDisplay(sel[CHOOSE k \in DOMAIN sel : d2c[sel[k]][1] = col])
    ELSE col

\* filtered_df[table_columns].rename(columns=rename_dict)
TableView(t, sel, d2c) ==
    LET tc == TableColumns(sel, d2c)
    IN  [columns |-> [i \in DOMAIN tc |-> Rename(tc[i], sel, d2c)],
         rows    |-> [r \in DOMAIN t.rows |->
                        [index |-> t.rows[r].index,
                         cells |-> [i \in DOMAIN tc |->
                                      t.rows[r].cells[ColumnIndex(t, tc[i])]]]]]

\* .to_csv(index=False): the header line and one line per row.
ToCsv(v) == [header |-> v.columns, lines |-> [r \in DOMAIN v.rows |-> v.rows[r].cells]]

\* ---------------------------------------------------------------- chart
RECURSIVE ChartData_swapped(_, _, _)
\* Mutation: the two metric columns of a bucket are taken in the wrong order.
ChartData_swapped(t, sel, d2c) ==
    IF sel = <<>> THEN <<>>
    ELSE <<<<Label(Head(sel)), METRIC_REG, SumSeq(Column(t, d2c[Head(sel)][2]))>>,
           <<Label(Head(sel)), METRIC_VAC, SumSeq(Column(t, d2c[Head(sel)][1]))>>>>
         \o ChartData_swapped(t, Tail(sel), d2c)

RECURSIVE ChartData(_, _, _)
ChartData(t, sel, d2c) ==
    IF sel = <<>> THEN <<>>
    ELSE <<<<Label(Head(sel)), METRIC_REG, SumSeq(Column(t, d2c[Head(sel)][1]))>>,
           <<Label(Head(sel)), METRIC_VAC, SumSeq(Column(t, d2c[Head(sel)][2]))>>>>
         \o ChartData(t, Tail(sel), d2c)

\* ================================================================ state
VARIABLES
    file,                  \* progress_data.xlsx as it is on disk
    cache,                 \* st.cache_data entry of load_data
    pc,                    \* the statement the running script is at
    df,
    date_ranges,
    date_to_columns,
    ucs, facilities, vaccinators,
    selected_uc, selected_facility, selected_vaccinator,
    dates_widget,          \* what the date multiselect returned
    selected_date_ranges,
    filtered_df,
    summary,               \* the per-bucket totals rendered in the summary
    table_view,            \* the frame given to st.dataframe
    download,              \* the CSV given to st.download_button
    chart_data,
    messages,              \* st.error / st.warning elements of this run
    exception              \* uncaught exception that ended this run

vars == <<file, cache, pc, df, date_ranges, date_to_columns, ucs, facilities,
          vaccinators, selected_uc, selected_facility, selected_vaccinator,
          dates_widget, selected_date_ranges, filtered_df, summary, table_view,
          download, chart_data, messages, exception>>

NoCache == [hit |-> FALSE, value |-> NoTable]
NoCsv == [header |-> <<>>, lines |-> <<>>]

\* The script's names before any statement of a run has executed.
FreshRun ==
    /\ df = NoTable
    /\ date_ranges = <<>>
    /\ date_to_columns = <<>>
    /\ ucs = <<>> /\ facilities = <<>> /\ vaccinators = <<>>
    /\ selected_uc = <<>> /\ selected_facility = <<>> /\ selected_vaccinator = <<>>
    /\ dates_widget = <<>>
    /\ selected_date_ranges = <<>>
    /\ filtered_df = NoTable
    /\ summary = <<>>
    /\ table_view = NoTable
    /\ download = NoCsv
    /\ chart_data = <<>>
    /\ messages = <<>>
    /\ exception = <<>>

Init ==
    /\ file \in Files
    /\ cache = NoCache
    /\ pc = "load"
    /\ FreshRun

\* df = load_data()
LoadData ==
    /\ pc = "load"
    /\ IF cache.hit
       THEN /\ df' = cache.value
            /\ pc' = "clean"
            /\ UNCHANGED <<cache, messages>>
       ELSE LET res == load_data(file)
            IN  /\ df' = res.value
                /\ messages' = messages \o res.shown
                /\ cache' = IF res.stopped THEN cache
                            ELSE [hit |-> TRUE, value |-> res.value]
                /\ pc' = IF res.stopped THEN "stopped" ELSE "clean"
    /\ UNCHANGED <<file, date_ranges, date_to_columns, ucs, facilities, vaccinators,
                   selected_uc, selected_facility, selected_vaccinator, dates_widget,
                   selected_date_ranges, filtered_df, summary, table_view, download,
                   chart_data, exception>>

\* df.columns = [...]  (df is this run's copy of the cached value)
CleanColumnNames ==
    /\ pc = "clean"
    /\ df' = CleanColumns(df)
    /\ pc' = "dates"
    /\ UNCHANGED <<file, cache, date_ranges, date_to_columns, ucs, facilities,
                   vaccinators, selected_uc, selected_facility, selected_vaccinator,
                   dates_widget, selected_date_ranges, filtered_df, summary,
                   table_view, download, chart_data, messages, exception>>

\* date_columns, date_ranges, date_to_columns
ExtractDateRanges ==
    /\ pc = "dates"
    /\ date_ranges' = DateRanges(df.columns)
    /\ date_to_columns' = DateToColumns(date_ranges')
    /\ pc' = "uc"
    /\ UNCHANGED <<file, cache, df, ucs, facilities, vaccinators, selected_uc,
                   selected_facility, selected_vaccinator, dates_widget,
                   selected_date_ranges, filtered_df, summary, table_view, download,
                   chart_data, messages, exception>>

\* the UC selectbox
SelectUc ==
    /\ pc = "uc"
    /\ ucs' = Ucs(df)
    /\ selected_uc' \in SelectboxValues(ucs')
    /\ pc' = "facility"
    /\ UNCHANGED <<file, cache, df, date_ranges, date_to_columns, facilities,
                   vaccinators, selected_facility, selected_vaccinator, dates_widget,
                   selected_date_ranges, filtered_df, summary, table_view, download,
                   chart_data, messages, exception>>

\* the Facility selectbox
SelectFacility ==
    /\ pc = "facility"
    /\ facilities' = Facilities(df, selected_uc)
    /\ selected_facility' \in SelectboxValues(facilities')
    /\ pc' = "vaccinator"
    /\ UNCHANGED <<file, cache, df, date_ranges, date_to_columns, ucs, vaccinators,
                   selected_uc, selected_vaccinator, dates_widget,
                   selected_date_ranges, filtered_df, summary, table_view, download,
                   chart_data, messages, exception>>

\* the Vaccinator selectbox
SelectVaccinator ==
    /\ pc = "vaccinator"
    /\ vaccinators' = Vaccinators(df, selected_uc, selected_facility)
    /\ selected_vaccinator' \in SelectboxValues(vaccinators')
    /\ pc' = "date_ranges"
    /\ UNCHANGED <<file, cache, df, date_ranges, date_to_columns, ucs, facilities,
                   selected_uc, selected_facility, dates_widget,
                   selected_date_ranges, filtered_df, summary, table_view, download,
                   chart_data, messages, exception>>

\* the Date Range(s) multiselect and its empty-selection fallback
SelectDateRanges ==
    /\ pc = "date_ranges"
    /\ dates_widget' \in MultiselectValues(date_ranges)
    /\ selected_date_ranges' = EffectiveDateRanges(dates_widget', date_ranges)
    /\ messages' = IF dates_widget' = <<>>
                   THEN Append(messages, [level |-> "warning", text |-> <<MSG_NO_DATES>>])
                   ELSE messages
    /\ pc' = "filter"
    /\ UNCHANGED <<file, cache, df, date_ranges, date_to_columns, ucs, facilities,
                   vaccinators, selected_uc, selected_facility, selected_vaccinator,
                   filtered_df, summary, table_view, download, chart_data, exception>>

\* Mutation: the narrowing is assigned back to df instead of to a copy.
FilterDataset_inPlace ==
    /\ pc = "filter"
    /\ df' = FilteredDf(df, selected_uc, selected_facility, selected_vaccinator)
    /\ filtered_df' = df'
    /\ pc' = "check_empty"
    /\ UNCHANGED <<file, cache, date_ranges, date_to_columns, ucs, facilities,
                   vaccinators, selected_uc, selected_facility, selected_vaccinator,
                   dates_widget, selected_date_ranges, summary, table_view, download,
                   chart_data, messages, exception>>

\* filtered_df = df.copy() and the three conditional narrowings
FilterDataset ==
    /\ pc = "filter"
    /\ filtered_df' = FilteredDf(df, selected_uc, selected_facility, selected_vaccinator)
    /\ pc' = "check_empty"
    /\ UNCHANGED <<file, cache, df, date_ranges, date_to_columns, ucs, facilities,
                   vaccinators, selected_uc, selected_facility, selected_vaccinator,
                   dates_widget, selected_date_ranges, summary, table_view, download,
                   chart_data, messages, exception>>

\* Mutation: the warning is shown but the run goes on.
CheckEmpty_noStop ==
    /\ pc = "check_empty"
    /\ messages' = IF IsEmpty(filtered_df)
                   THEN Append(messages, [level |-> "warning", text |-> <<MSG_NO_DATA>>])
                   ELSE messages
    /\ pc' = "summary"
    /\ UNCHANGED <<file, cache, df, date_ranges, date_to_columns, ucs, facilities,
                   vaccinators, selected_uc, selected_facility, selected_vaccinator,
                   dates_widget, selected_date_ranges, filtered_df, summary,
                   table_view, download, chart_data, exception>>

\* if filtered_df.empty: st.warning(...); st.stop()
CheckEmpty ==
    /\ pc = "check_empty"
    /\ IF IsEmpty(filtered_df)
       THEN /\ messages' = Append(messages, [level |-> "warning", text |-> <<MSG_NO_DATA>>])
            /\ pc' = "stopped"
       ELSE /\ messages' = messages
            /\ pc' = "summary"
    /\ UNCHANGED <<file, cache, df, date_ranges, date_to_columns, ucs, facilities,
                   vaccinators, selected_uc, selected_facility, selected_vaccinator,
                   dates_widget, selected_date_ranges, filtered_df, summary,
                   table_view, download, chart_data, exception>>

\* cols = st.columns(len(selected_date_ranges)) and the summary loop
Summary ==
    /\ pc = "summary"
    /\ IF Len(selected_date_ranges) = 0
       THEN /\ exception' = <<"StreamlitAPIException", <<>>>>
            /\ summary' = summary
            /\ pc' = "crashed"
       ELSE LET res == SummaryLoop(filtered_df, selected_date_ranges, date_to_columns, 1)
            IN  /\ summary' = res.rendered
                /\ exception' = res.raised
                /\ pc' = IF res.raised = <<>> THEN "table" ELSE "crashed"
    /\ UNCHANGED <<file, cache, df, date_ranges, date_to_columns, ucs, facilities,
                   vaccinators, selected_uc, selected_facility, selected_vaccinator,
                   dates_widget, selected_date_ranges, filtered_df, table_view,
                   download, chart_data, messages>>

\* the "View Filtered Data" expander: st.dataframe and st.download_button
ViewFilteredData ==
    /\ pc = "table"
    /\ table_view' = TableView(filtered_df, selected_date_ranges, date_to_columns)
    /\ download' = ToCsv(table_view')
    /\ pc' = "chart"
    /\ UNCHANGED <<file, cache, df, date_ranges, date_to_columns, ucs, facilities,
                   vaccinators, selected_uc, selected_facility, selected_vaccinator,
                   dates_widget, selected_date_ranges, filtered_df, summary,
                   chart_data, messages, exception>>

\* the chart section: chart_data built bucket by bucket, then plotted
Chart ==
    /\ pc = "chart"
    /\ chart_data' = IF IsEmpty(filtered_df) THEN <<>>
                     ELSE ChartData(filtered_df, selected_date_ranges, date_to_columns)
    /\ pc' = "done"
    /\ UNCHANGED <<file, cache, df, date_ranges, date_to_columns, ucs, facilities,
                   vaccinators, selected_uc, selected_facility, selected_vaccinator,
                   dates_widget, selected_date_ranges, filtered_df, summary,
                   table_view, download, messages, exception>>

\* A user interaction: Streamlit runs the script again from the top.
Rerun ==
    /\ pc \in {"done", "stopped", "crashed"}
    /\ pc' = "load"
    /\ df' = NoTable
    /\ date_ranges' = <<>>
    /\ date_to_columns' = <<>>
    /\ ucs' = <<>> /\ facilities' = <<>> /\ vaccinators' = <<>>
    /\ selected_uc' = <<>> /\ selected_facility' = <<>> /\ selected_vaccinator' = <<>>
    /\ dates_widget' = <<>>
    /\ selected_date_ranges' = <<>>
    /\ filtered_df' = NoTable
    /\ summary' = <<>>
    /\ table_view' = NoTable
    /\ download' = NoCsv
    /\ chart_data' = <<>>
    /\ messages' = <<>>
    /\ exception' = <<>>
    /\ UNCHANGED <<file, cache>>

Next ==
    \/ LoadData
    \/ CleanColumnNames
    \/ ExtractDateRanges
    \/ SelectUc
    \/ SelectFacility
    \/ SelectVaccinator
    \/ SelectDateRanges
    \/ FilterDataset
    \/ CheckEmpty
    \/ Summary
    \/ ViewFilteredData
    \/ Chart
    \/ Rerun

Spec == Init /\ [][Next]_vars


\* =============================================================== claims
\* Stages of a run at which filtered_df has been computed.
Filtered ==
    \/ pc \in {"check_empty", "summary", "table", "chart", "done", "crashed"}
    \/ pc = "stopped" /\ file.status = "ok"

WarnNoData == [level |-> "warning", text |-> <<MSG_NO_DATA>>]
WarnNoDates == [level |-> "warning", text |-> <<MSG_NO_DATES>>]

\* C1: the filtered table is exactly the rows of the loaded table that equal
\* every non-"All" selection on its column, in their original order, none
\* duplicated and none added; "All" excludes nothing.
C1_FilterExact ==
    Filtered =>
        LET keep(r) ==
                /\ selected_uc = ALL \/ r.cells[ColumnIndex(df, COL_UC)] = selected_uc
                /\ selected_facility = ALL
                   \/ r.cells[ColumnIndex(df, COL_FACILITY)] = selected_facility
                /\ selected_vaccinator = ALL
                   \/ r.cells[ColumnIndex(df, COL_VACCINATOR)] = selected_vaccinator
        IN  /\ filtered_df.columns = df.columns
            /\ filtered_df.rows = SelectSeq(df.rows, keep)
            /\ \A i, j \in DOMAIN filtered_df.rows :
                   i < j => filtered_df.rows[i].index < filtered_df.rows[j].index
            /\ \A i \in DOMAIN filtered_df.rows : filtered_df.rows[i] \in Range(df.rows)

\* C1 witness: all three selections are specific values, a row is kept and a row is dropped.
C1_Witness ==
    /\ pc = "check_empty"
    /\ selected_uc # ALL /\ selected_facility # ALL /\ selected_vaccinator # ALL
    /\ Len(filtered_df.rows) = 1
    /\ Len(df.rows) = 2

\* C2: the vaccinator candidate list is the sorted set of distinct vaccinator
\* values among the rows matching both the unit and the facility constraint,
\* where an "All" constraint matches every row.
C2_VaccinatorCandidates ==
    (pc \in {"date_ranges", "filter"} \/ Filtered) =>
        LET match(r) ==
                /\ selected_uc = ALL \/ r.cells[ColumnIndex(df, COL_UC)] = selected_uc
                /\ selected_facility = ALL
                   \/ r.cells[ColumnIndex(df, COL_FACILITY)] = selected_facility
            rows == SelectSeq(df.rows, match)
        IN  vaccinators =
                Sorted({ rows[i].cells[ColumnIndex(df, COL_VACCINATOR)] : i \in DOMAIN rows })

\* C3: every discovered bucket has both of its column names in the table.
C3_BucketColumnsExist ==
    \A dr \in DOMAIN date_to_columns :
        /\ HasColumn(df, date_to_columns[dr][1])
        /\ HasColumn(df, date_to_columns[dr][2])

C5_MissingPairDoesNotCrash ==
    LET offending == { k \in DOMAIN selected_date_ranges :
                         ~ ( HasColumn(filtered_df, REG \o selected_date_ranges[k])
                             /\ HasColumn(filtered_df, VAC \o selected_date_ranges[k]) ) }
    IN  (pc \in {"table", "chart", "done", "crashed"} /\ offending # {}) =>
            /\ exception = <<>>
            /\ \A k \in DOMAIN selected_date_ranges \ offending :
                   \E n \in DOMAIN summary : summary[n].label = Label(selected_date_ranges[k])

\* C6: when the selections match zero rows the run emits the "no data"
\* warning and stops without an error before any summary, table, download
\* or chart output.
C6_EmptyResultStops ==
    /\ [](pc \in {"summary", "table", "chart", "done", "crashed"} => ~IsEmpty(filtered_df))
    /\ [][ (pc = "check_empty" /\ IsEmpty(filtered_df)) =>
               /\ pc' = "stopped"
               /\ messages' = Append(messages, WarnNoData)
               /\ exception' = <<>>
               /\ summary' = <<>> /\ table_view' = NoTable
               /\ download' = NoCsv /\ chart_data' = <<>> ]_vars
    /\ [][ pc = "stopped" => pc' \in {"stopped", "load"} ]_vars

\* C6 witness: a run stopped on an empty filtered table.
C6_Witness ==
    /\ pc = "stopped"
    /\ file.status = "ok"
    /\ IsEmpty(filtered_df)
    /\ messages # <<>> /\ messages[Len(messages)] = WarnNoData

C8_LoadFailureHalts ==
    file.status # "ok" =>
        /\ pc \in {"load", "stopped"}
        /\ cache = NoCache
        /\ df = NoTable /\ date_ranges = <<>> /\ date_to_columns = <<>>
        /\ ucs = <<>> /\ facilities = <<>> /\ vaccinators = <<>>
        /\ selected_uc = <<>> /\ selected_facility = <<>> /\ selected_vaccinator = <<>>
        /\ selected_date_ranges = <<>> /\ filtered_df = NoTable
        /\ summary = <<>> /\ table_view = NoTable /\ download = NoCsv
        /\ chart_data = <<>> /\ exception = <<>>
        /\ pc = "load" => messages = <<>>
        /\ pc = "stopped" =>
               /\ Len(messages) = 1
               /\ messages[1].level = "error"
               /\ FILE_NAME \in Range(messages[1].text)
               /\ file.status = "missing" => messages[1] = ErrNotFound

\* C8 witness: a run halted at the load of a missing file.
C8_Witness ==
    /\ pc = "stopped"
    /\ file.status = "missing"
    /\ messages = <<ErrNotFound>>

\* C9: once loaded, the record table is never mutated in place: in every
\* run, whatever was selected, the cached table is the sheet as read and df
\* is that sheet with cleaned column names, rows and row order untouched.
C9_SourceTableImmutable ==
    /\ cache.hit => cache.value = file.table
    /\ (file.status = "ok" /\ pc \notin {"load", "clean"}) =>
           /\ df.rows = file.table.rows
           /\ df.columns = [i \in DOMAIN file.table.columns |->
                              CleanName(file.table.columns[i])]

\* C9 witness: a later run has filtered rows out and renamed columns for display.
C9_Witness ==
    /\ pc = "done"
    /\ Len(filtered_df.rows) < Len(df.rows)
    /\ \E i \in DOMAIN table_view.columns : table_view.columns[i] \notin Range(df.columns)

\* C10: the date-range selection that reaches the summary, table and chart
\* stages is non-empty and contains only discovered bucket labels.
C10_SelectionNonEmpty ==
    pc \in {"summary", "table", "chart", "done"} =>
        /\ selected_date_ranges # <<>>
        /\ Range(selected_date_ranges) \subseteq Range(date_ranges)
====
